---------------------------- MODULE Spec2Model ----------------------------
(*
  Model of ai-hub-fairing-xgboost-example.ipynb: the data loader
  read_input (pandas read_csv / dropna / select_dtypes, sklearn
  train_test_split(shuffle=False) and SimpleImputer(strategy="median")),
  and the HousingServe wrapper (train: read_input -> train_model ->
  eval_model -> save_model -> upload_file_to_gcs; predict: lazy joblib.load
  and a duplicated scalar answer).

  A csv cell is a record [kind, val]: a number, a missing value (NaN) or a
  non-numeric string.  A dataset is a sequence of rows, a row a record
  [SalePrice: cell, feat: column name -> cell].
*)
EXTENDS Integers, Sequences, FiniteSets, TLC

VARIABLES
  data,          \* contents of the csv file handed to read_input
  test_size,     \* the test_size argument of read_input
  res,           \* what read_input(data, test_size) returned (or raised)
  data2,         \* a second csv file: data with one test-partition cell changed
  res2,          \* what read_input(data2, test_size) returned (or raised)
  dpc,           \* position of the notebook cell calling read_input
  trained_model, \* HousingServe.trained_model, per object
  model_file,    \* contents of the local file trained_ames_model.dat
  bucket,        \* contents of the remote object trained_ames_model.dat
  tpc,           \* position inside HousingServe.train
  tlocal,        \* local variables of the running train() call
  steps,         \* steps the current train() call has completed, in order
  bucket0,       \* contents of the remote object when train() was entered
  uploads,       \* upload attempts made by the current train() call
  runs,          \* number of train() calls started
  caller,        \* the object of the last predict call
  lastX,         \* argument X of the last predict call
  ret,           \* value returned by the last predict call
  pstatus,       \* outcome of the last predict call
  loads,         \* successful joblib.load calls, per object
  attempts,      \* joblib.load calls, per object
  calls,         \* predict calls, per object
  downloaded     \* download_file_from_gcs has been called

dvars == <<data, test_size, res, data2, res2, dpc>>
svars == <<trained_model, model_file, bucket, tpc, tlocal, steps,
           bucket0, uploads, runs, caller, lastX, ret, pstatus, loads, attempts,
           calls, downloaded>>
vars == <<dvars, svars>>

-----------------------------------------------------------------------------
(* Bounds *)

MaxRows == 3        \* most rows of a csv file
MaxRuns == 2        \* most train() calls
MaxCalls == 3       \* most predict calls, all objects together
MaxPredRows == 2    \* most rows of a predict argument

(* The feature columns of the csv files, the values of their numeric cells
   and the test fractions tried. *)
Cols == {"LotFrontage", "MasVnrArea"}
FeatVals == {0, 2}
DefaultTestSize == [num |-> 1, den |-> 4]
TestSizes == {DefaultTestSize, [num |-> 1, den |-> 2]}

-----------------------------------------------------------------------------
(* csv cells *)

Num(v) == [kind |-> "num", val |-> v]
NaN == [kind |-> "nan", val |-> 0]
Str == [kind |-> "str", val |-> 0]

IsNaN(c) == c.kind = "nan"

(* The cells of the files tried, per column: LotFrontage holds a number or a
   gap, MasVnrArea one number or a gap; text and other numbers come in with
   the cell CallReadInputOther changes. *)
FeatCells(c) ==
  IF c = "LotFrontage" THEN {Num(v) : v \in FeatVals} \cup {NaN}
  ELSE {Num(2), NaN}

AllCells == {Num(v) : v \in FeatVals} \cup {NaN, Str}

Features == {f \in [Cols -> AllCells] :
               \A c \in Cols : f[c] \in FeatCells(c)}

(* The price of row i when it is present: distinct for distinct rows. *)
Price(i) == 10 * i

RowsAt(i) == [SalePrice : {Num(Price(i)), NaN}, feat : Features]

RECURSIVE DatasetsOfLen(_)
DatasetsOfLen(n) ==
  IF n = 0 THEN {<<>>}
  ELSE {Append(d, r) : d \in DatasetsOfLen(n - 1), r \in RowsAt(n)}

Datasets == UNION {DatasetsOfLen(n) : n \in 0..MaxRows}

-----------------------------------------------------------------------------
(* read_input *)

(* data.dropna(axis=0, subset=['SalePrice']): the rows whose price is present,
   in file order. *)
dropna_keep(d) == d
dropna(d) == SelectSeq(d, LAMBDA r : ~IsNaN(r.SalePrice))

(* select_dtypes(exclude=['object']): read_csv gives a column the object dtype
   as soon as one of its cells, in any row of the file, is not a number; a file
   with no rows has only object columns. *)
select_dtypes(d) ==
  IF Len(d) = 0 THEN {}
  ELSE {c \in Cols : \A i \in 1..Len(d) : d[i].feat[c].kind # "str"}

(* train_test_split with a float test_size: n_test = ceil(test_size * n). *)
n_test(n, f) == (n * f.num + f.den - 1) \div f.den
n_train(n, f) == n - n_test(n, f)

(* shuffle=False: the leading n_train rows, then the n_test rows after them. *)
split_train_tail(rows, f) == SubSeq(rows, n_test(Len(rows), f) + 1, Len(rows))
split_train(rows, f) == SubSeq(rows, 1, n_train(Len(rows), f))
split_test(rows, f) == SubSeq(rows, n_train(Len(rows), f) + 1, Len(rows))

RECURSIVE Insert(_, _)
Insert(s, v) ==
  IF s = <<>> THEN <<v>>
  ELSE IF v <= Head(s) THEN <<v>> \o s
  ELSE <<Head(s)>> \o Insert(Tail(s), v)

RECURSIVE Sort(_)
Sort(s) == IF s = <<>> THEN <<>> ELSE Insert(Sort(Tail(s)), Head(s))

(* numpy median of a non-empty sequence: the middle value, or the mean of the
   two middle values (exact here: the numeric cells are even numbers). *)
Median(s) ==
  LET t == Sort(s)
      n == Len(t)
  IN IF n % 2 = 1 THEN t[(n + 1) \div 2]
     ELSE (t[n \div 2] + t[n \div 2 + 1]) \div 2

(* The values of column c that are present in the rows X. *)
Present(X, c) ==
  LET cells == [i \in 1..Len(X) |-> X[i].feat[c]]
      nums == SelectSeq(cells, LAMBDA x : ~IsNaN(x))
  IN [i \in 1..Len(nums) |-> nums[i].val]

(* SimpleImputer(strategy="median").fit: per column, the median of the values
   present, NaN for a column with none. *)
imputer_fit(X, cols) ==
  [c \in cols |-> IF Present(X, c) = <<>> THEN NaN
                  ELSE Num(Median(Present(X, c)))]

(* SimpleImputer.transform: columns whose statistic is NaN are discarded, the
   missing cells of the others are replaced by the statistic. *)
imputer_transform_keep(X, statistics) ==
  [i \in 1..Len(X) |->
     [c \in DOMAIN statistics |-> IF IsNaN(X[i].feat[c]) THEN statistics[c]
                                  ELSE X[i].feat[c]]]
imputer_transform(X, statistics) ==
  LET keep == {c \in DOMAIN statistics : ~IsNaN(statistics[c])}
  IN [i \in 1..Len(X) |->
        [c \in keep |-> IF IsNaN(X[i].feat[c]) THEN statistics[c]
                        ELSE X[i].feat[c]]]

labels(rows) == [i \in 1..Len(rows) |-> rows[i].SalePrice]

NoResult == [status |-> "none"]
Raised == [status |-> "raised"]

read_input_leaky(d, f) ==
  LET rows == dropna(d)
      cols == select_dtypes(d)
      statistics == imputer_fit(rows, cols)
  IN IF n_train(Len(rows), f) = 0 \/ cols = {} THEN Raised
     ELSE [status |-> "ok",
           train_X |-> imputer_transform(split_train(rows, f), statistics),
           train_y |-> labels(split_train(rows, f)),
           test_X |-> imputer_transform(split_test(rows, f), statistics),
           test_y |-> labels(split_test(rows, f)),
           statistics |-> statistics]

(* read_input(file_name, test_size): train_test_split raises on an empty
   training set, SimpleImputer.fit on a matrix without columns. *)
read_input(d, f) ==
  LET rows == dropna(d)
      cols == select_dtypes(d)
      tr == split_train(rows, f)
      te == split_test(rows, f)
      statistics == imputer_fit(tr, cols)
  IN IF n_train(Len(rows), f) = 0 \/ cols = {} THEN Raised
     ELSE [status |-> "ok",
           train_X |-> imputer_transform(tr, statistics),
           train_y |-> labels(tr),
           test_X |-> imputer_transform(te, statistics),
           test_y |-> labels(te),
           statistics |-> statistics]

-----------------------------------------------------------------------------
(* The notebook cell that calls read_input, and a second call on a file that
   differs from the first in one feature cell of a test-partition row. *)

(* The file rows that land in the test partition of read_input(d, f). *)
TestRowsOf(d, f) ==
  {i \in 1..Len(d) :
     /\ ~IsNaN(d[i].SalePrice)
     /\ Len(dropna(SubSeq(d, 1, i))) > n_train(Len(dropna(d)), f)}

TrainRowsOf(d, f) ==
  {i \in 1..Len(d) :
     /\ ~IsNaN(d[i].SalePrice)
     /\ Len(dropna(SubSeq(d, 1, i))) <= n_train(Len(dropna(d)), f)}

CallReadInput ==
  /\ dpc = "start"
  /\ res' = read_input(data, test_size)
  /\ dpc' = "read"
  /\ UNCHANGED <<data, test_size, data2, res2, svars>>

CallReadInputOther ==
  /\ dpc = "read"
  /\ \E i \in TestRowsOf(data, test_size), c \in Cols :
       \E v \in AllCells \ {data[i].feat[c]} :
         /\ data2' = [data EXCEPT ![i].feat[c] = v]
         /\ res2' = read_input(data2', test_size)
  /\ dpc' = "both"
  /\ UNCHANGED <<data, test_size, res, svars>>

-----------------------------------------------------------------------------
(* HousingServe *)

Objs == {"a", "b"}

(* A fitted regressor: the train() call that fitted it and what it learned,
   here the mean training price.  None is Python's None. *)
None == [run |-> 0, base |-> 0]

RECURSIVE Sum(_)
Sum(s) == IF s = <<>> THEN 0 ELSE Head(s) + Sum(Tail(s))

RECURSIVE RowSum(_, _)
RowSum(row, cs) ==
  IF cs = {} THEN 0
  ELSE LET c == CHOOSE x \in cs : TRUE
       IN row[c].val + RowSum(row, cs \ {c})

(* train_model: XGBRegressor(n_estimators, learning_rate).fit(...) *)
train_model(run, train_X, train_y) ==
  [run |-> run,
   base |-> Sum([i \in 1..Len(train_y) |-> train_y[i].val]) \div Len(train_y)]

(* model.predict(X): one prediction per row of X. *)
model_predict(m, X) ==
  [i \in 1..Len(X) |-> m.base + RowSum(X[i], DOMAIN X[i])]

Abs(x) == IF x < 0 THEN 0 - x ELSE x

(* eval_model: the absolute errors of the predictions on the held-out rows,
   summed (the logged mean is this sum over the number of rows). *)
eval_model(m, test_X, test_y) ==
  LET predictions == model_predict(m, test_X)
  IN Sum([i \in 1..Len(test_y) |-> Abs(predictions[i] - test_y[i].val)])

(* The files ames_dataset/train.csv can be: a complete file, and a file with a
   header only, on which read_input raises. *)
TrainRow(i, v, w) ==
  [SalePrice |-> Num(Price(i)),
   feat |-> [c \in Cols |-> IF c = "LotFrontage" THEN v ELSE w]]
TrainFiles ==
  {<<>>,
   <<TrainRow(1, Num(0), Num(2)), TrainRow(2, NaN, Num(2)),
     TrainRow(3, Num(2), NaN)>>}

(* The rows a predict argument is made of. *)
PredRows == {[c \in Cols |-> Num(v)] : v \in FeatVals}

RECURSIVE SeqsUpTo(_, _)
SeqsUpTo(S, n) ==
  IF n = 0 THEN {<<>>}
  ELSE SeqsUpTo(S, n - 1) \cup
       {Append(x, r) : x \in {y \in SeqsUpTo(S, n - 1) : Len(y) = n - 1},
                       r \in S}

RECURSIVE Total(_, _)
Total(f, S) ==
  IF S = {} THEN 0
  ELSE LET x == CHOOSE y \in S : TRUE IN f[x] + Total(f, S \ {x})

NoLocals == [split |-> NoResult, model |-> None, mae |-> 0, raisedIn |-> "-"]

(* No train() call is running: the notebook is single-threaded, a call runs
   to its end before the next statement starts. *)
Quiet == tpc = "idle"

dataIdle == <<res, data2, res2, dpc>>
predictState == <<trained_model, caller, lastX, ret, pstatus, loads, attempts, calls>>

(* HousingServe().train() is entered. *)
TrainCall(o) ==
  /\ Quiet
  /\ runs < MaxRuns
  /\ runs' = runs + 1
  /\ tpc' = "read_input"
  /\ tlocal' = NoLocals
  /\ steps' = <<>>
  /\ bucket0' = bucket
  /\ uploads' = 0
  /\ UNCHANGED <<data, test_size, dataIdle, predictState, model_file, bucket,
                 downloaded>>

(* (train_X, train_y), (test_X, test_y), _ = read_input(self.train_input) *)
TrainReadInput ==
  /\ tpc = "read_input"
  /\ LET r == read_input(data, DefaultTestSize)
     IN IF r.status = "raised"
        THEN /\ tpc' = "raised"
             /\ tlocal' = [tlocal EXCEPT !.raisedIn = "read_input"]
             /\ UNCHANGED steps
        ELSE /\ tpc' = "train_model"
             /\ tlocal' = [tlocal EXCEPT !.split = r]
             /\ steps' = Append(steps, "read_input")
  /\ UNCHANGED <<data, test_size, dataIdle, predictState, model_file, bucket,
                 bucket0, uploads, runs, downloaded>>

(* model = train_model(train_X, train_y, test_X, test_y, ...) *)
TrainFit ==
  /\ tpc = "train_model"
  /\ tlocal' = [tlocal EXCEPT
                  !.model = train_model(runs, tlocal.split.train_X,
                                        tlocal.split.train_y)]
  /\ steps' = Append(steps, "train_model")
  /\ tpc' = "eval_model"
  /\ UNCHANGED <<data, test_size, dataIdle, predictState, model_file, bucket,
                 bucket0, uploads, runs, downloaded>>

TrainEval_skip_save ==
  /\ tpc = "eval_model"
  /\ tlocal' = [tlocal EXCEPT
                  !.mae = eval_model(tlocal.model, tlocal.split.test_X,
                                     tlocal.split.test_y)]
  /\ steps' = Append(steps, "eval_model")
  /\ tpc' = "upload"
  /\ UNCHANGED <<data, test_size, dataIdle, predictState, model_file, bucket,
                 bucket0, uploads, runs, downloaded>>

(* eval_model(model, test_X, test_y) *)
TrainEval ==
  /\ tpc = "eval_model"
  /\ tlocal' = [tlocal EXCEPT
                  !.mae = eval_model(tlocal.model, tlocal.split.test_X,
                                     tlocal.split.test_y)]
  /\ steps' = Append(steps, "eval_model")
  /\ tpc' = "save_model"
  /\ UNCHANGED <<data, test_size, dataIdle, predictState, model_file, bucket,
                 bucket0, uploads, runs, downloaded>>

(* save_model(model, self.model_file): joblib.dump writes the file, or raises
   (the file cannot be opened) and leaves it as it was. *)
TrainSave ==
  /\ tpc = "save_model"
  /\ \/ /\ model_file' = tlocal.model
        /\ steps' = Append(steps, "save_model")
        /\ tpc' = "upload"
        /\ UNCHANGED tlocal
     \/ /\ tpc' = "raised"
        /\ tlocal' = [tlocal EXCEPT !.raisedIn = "save_model"]
        /\ UNCHANGED <<model_file, steps>>
  /\ UNCHANGED <<data, test_size, dataIdle, predictState, bucket,
                 bucket0, uploads, runs, downloaded>>

(* upload_file_to_gcs(GCS_BUCKET_ID, self.model_file, self.model_file): the
   blob receives the contents of the local file, or the client raises and the
   bucket is left as it was. *)
upload_file_to_gcs(file) == file

TrainUpload_rollback ==
  /\ tpc = "upload"
  /\ uploads' = uploads + 1
  /\ \/ /\ bucket' = upload_file_to_gcs(model_file)
        /\ steps' = Append(steps, "upload")
        /\ tpc' = "done"
        /\ UNCHANGED <<tlocal, model_file>>
     \/ /\ tpc' = "raised"
        /\ tlocal' = [tlocal EXCEPT !.raisedIn = "upload"]
        /\ model_file' = None
        /\ UNCHANGED <<bucket, steps>>
  /\ UNCHANGED <<data, test_size, dataIdle, predictState,
                 bucket0, runs, downloaded>>

TrainUpload ==
  /\ tpc = "upload"
  /\ uploads' = uploads + 1
  /\ \/ /\ bucket' = upload_file_to_gcs(model_file)
        /\ steps' = Append(steps, "upload")
        /\ tpc' = "done"
        /\ UNCHANGED tlocal
     \/ /\ tpc' = "raised"
        /\ tlocal' = [tlocal EXCEPT !.raisedIn = "upload"]
        /\ UNCHANGED <<bucket, steps>>
  /\ UNCHANGED <<data, test_size, dataIdle, predictState, model_file,
                 bucket0, runs, downloaded>>

(* train() returns, or its exception reaches the notebook cell: the locals of
   the call are gone. *)
TrainReturn ==
  /\ tpc \in {"done", "raised"}
  /\ tpc' = "idle"
  /\ tlocal' = NoLocals
  /\ steps' = <<>>
  /\ bucket0' = None
  /\ uploads' = 0
  /\ UNCHANGED <<dvars, predictState, model_file, bucket, runs, downloaded>>

(* download_file_from_gcs(bucket, name, name): the local file receives the
   contents of the blob; no cell of the notebook and no method calls it. *)
DownloadFile ==
  /\ Quiet
  /\ bucket # None
  /\ downloaded' = TRUE
  /\ model_file' = bucket
  /\ UNCHANGED <<dvars, predictState, bucket, tpc, tlocal, steps,
                 bucket0, uploads, runs>>

Falsy_always(m) == TRUE
(* `not self.trained_model`: None is false, a regressor object is true. *)
Falsy(m) == m = None

predict_result_mixed(prediction) ==
  <<<<prediction[1], prediction[Len(prediction)]>>>>
predict_result_last(prediction) ==
  <<<<prediction[Len(prediction)], prediction[Len(prediction)]>>>>
(* [[prediction.item(0), prediction.item(0)]] *)
predict_result(prediction) == <<<<prediction[1], prediction[1]>>>>

Predict_download(o, X) ==
  /\ Quiet
  /\ Total(calls, Objs) < MaxCalls
  /\ calls' = [calls EXCEPT ![o] = @ + 1]
  /\ caller' = o
  /\ lastX' = X
  /\ attempts' = [attempts EXCEPT ![o] = IF Falsy(trained_model[o])
                                        THEN @ + 1 ELSE @]
  /\ model_file' = IF Falsy(trained_model[o]) /\ model_file = None
                   THEN bucket ELSE model_file
  /\ downloaded' = (downloaded \/ (Falsy(trained_model[o]) /\ model_file = None))
  /\ IF Falsy(trained_model[o]) /\ model_file' = None
     THEN /\ pstatus' = "load raised"
          /\ ret' = <<>>
          /\ UNCHANGED <<trained_model, loads>>
     ELSE /\ trained_model' = [trained_model EXCEPT
                                 ![o] = IF Falsy(@) THEN model_file' ELSE @]
          /\ loads' = [loads EXCEPT ![o] = IF Falsy(trained_model[o])
                                           THEN @ + 1 ELSE @]
          /\ LET prediction == model_predict(trained_model'[o], X)
             IN IF Len(prediction) = 0
                THEN /\ pstatus' = "item raised"
                     /\ ret' = <<>>
                ELSE /\ pstatus' = "ok"
                     /\ ret' = predict_result(prediction)
  /\ UNCHANGED <<dvars, bucket, tpc, tlocal, steps,
                 bucket0, uploads, runs>>

(* HousingServe.predict(X, feature_names): joblib.load raises when the file
   is absent, prediction.item(0) when X has no row. *)
Predict(o, X) ==
  /\ Quiet
  /\ Total(calls, Objs) < MaxCalls
  /\ calls' = [calls EXCEPT ![o] = @ + 1]
  /\ caller' = o
  /\ lastX' = X
  /\ attempts' = [attempts EXCEPT ![o] = IF Falsy(trained_model[o])
                                        THEN @ + 1 ELSE @]
  /\ IF Falsy(trained_model[o]) /\ model_file = None
     THEN /\ pstatus' = "load raised"
          /\ ret' = <<>>
          /\ UNCHANGED <<trained_model, loads>>
     ELSE /\ trained_model' = [trained_model EXCEPT
                                 ![o] = IF Falsy(@) THEN model_file ELSE @]
          /\ loads' = [loads EXCEPT ![o] = IF Falsy(trained_model[o])
                                           THEN @ + 1 ELSE @]
          /\ LET prediction == model_predict(trained_model'[o], X)
             IN IF Len(prediction) = 0
                THEN /\ pstatus' = "item raised"
                     /\ ret' = <<>>
                ELSE /\ pstatus' = "ok"
                     /\ ret' = predict_result(prediction)
  /\ UNCHANGED <<dvars, model_file, bucket, tpc, tlocal, steps,
                 bucket0, uploads, runs, downloaded>>

-----------------------------------------------------------------------------
(* Specifications *)

(* HousingServe.__init__ and a fresh working directory and bucket. *)
ServeInit ==
  /\ trained_model = [o \in Objs |-> None]
  /\ model_file = None
  /\ bucket = None
  /\ tpc = "idle"
  /\ tlocal = NoLocals
  /\ steps = <<>>
  /\ bucket0 = None
  /\ uploads = 0
  /\ runs = 0
  /\ caller = "a"
  /\ lastX = <<>>
  /\ ret = <<>>
  /\ pstatus = "none"
  /\ loads = [o \in Objs |-> 0]
  /\ attempts = [o \in Objs |-> 0]
  /\ calls = [o \in Objs |-> 0]
  /\ downloaded = FALSE

DataIdle ==
  /\ res = NoResult
  /\ data2 = <<>>
  /\ res2 = NoResult
  /\ dpc = "start"

(* The serving lifecycle: train and predict calls on the HousingServe objects,
   with ames_dataset/train.csv one of TrainFiles. *)
Init ==
  /\ data \in TrainFiles
  /\ test_size = DefaultTestSize
  /\ DataIdle
  /\ ServeInit

Next ==
  \/ \E o \in Objs : TrainCall(o)
  \/ TrainReadInput
  \/ TrainFit
  \/ TrainEval
  \/ TrainSave
  \/ TrainUpload
  \/ TrainReturn
  \/ DownloadFile
  \/ \E o \in Objs : \E X \in SeqsUpTo(PredRows, MaxPredRows) : Predict(o, X)

Spec == Init /\ [][Next]_vars

(* The data loader: read_input on any csv file of at most MaxRows rows. *)
InitData ==
  /\ data \in Datasets
  /\ test_size \in TestSizes
  /\ DataIdle
  /\ ServeInit

NextData ==
  \/ CallReadInput
  \/ CallReadInputOther

SpecData == InitData /\ [][NextData]_vars

-----------------------------------------------------------------------------
(* Properties of HousingServe.predict and HousingServe.train (Spec) *)

(* C1: an object deserializes the model only while it holds none, so at most
   once: a predict call that finds no cached model and a present file loads
   that file and caches it, a load happens only inside a predict call of an
   object that has not loaded before, and a cached model is never cleared or
   replaced, also when the file is rewritten later. *)
C1_LoadedOnce ==
  [][\A o \in Objs :
       /\ (loads'[o] # loads[o]) =>
            /\ calls'[o] = calls[o] + 1
            /\ loads[o] = 0 /\ loads'[o] = 1
            /\ trained_model[o] = None
       /\ (calls'[o] # calls[o] /\ trained_model[o] = None
             /\ model_file # None) =>
            /\ loads'[o] = loads[o] + 1
            /\ trained_model'[o] = model_file
       /\ (trained_model[o] # None) =>
            /\ trained_model'[o] = trained_model[o]
            /\ attempts'[o] = attempts[o]
            /\ loads'[o] = loads[o]]_vars

(* An object answered twice from the one load of its first call, although the
   file has been rewritten by a later train() since. *)
C1_Witness ==
  /\ calls[caller] >= 2 /\ attempts[caller] = 1 /\ loads[caller] = 1
  /\ pstatus = "ok"
  /\ model_file # None /\ trained_model[caller] # model_file

(* C2 as stated: the value predict returns is a two-element sequence with
   equal elements. *)
C2_Original ==
  pstatus = "ok" => Len(ret) = 2 /\ ret[1] = ret[2]

(* C2 amended: the value predict returns is a one-element sequence whose only
   element is a two-element sequence with equal elements. *)
C2_NestedPair ==
  pstatus = "ok" =>
    /\ Len(ret) = 1
    /\ Len(ret[1]) = 2
    /\ ret[1][1] = ret[1][2]

(* predict answered for an argument whose rows get different predictions. *)
C2_Witness ==
  /\ pstatus = "ok"
  /\ Len(lastX) = 2
  /\ model_predict(trained_model[caller], lastX)[1]
       # model_predict(trained_model[caller], lastX)[2]

(* C3 as stated: for an argument of n rows predict returns n pairs, the i-th
   holding the prediction for row i twice. *)
C3_Original ==
  pstatus = "ok" =>
    LET p == model_predict(trained_model[caller], lastX)
    IN /\ Len(ret) = Len(lastX)
       /\ \A i \in 1..Len(lastX) : ret[i] = <<p[i], p[i]>>

(* C3 amended: for an argument of n >= 1 rows predict returns exactly one
   pair, holding the prediction for the first row twice; the other rows do
   not show in the answer. *)
C3_FirstRowOnly ==
  pstatus = "ok" =>
    LET p == model_predict(trained_model[caller], lastX)
    IN /\ Len(lastX) >= 1
       /\ ret = <<<<p[1], p[1]>>>>

(* predict answered for several rows, the last predicted unlike the first. *)
C3_Witness ==
  /\ pstatus = "ok"
  /\ Len(lastX) >= 2
  /\ LET p == model_predict(trained_model[caller], lastX)
     IN p[Len(p)] # p[1] /\ ret[1][1] = p[1]

(* C8: when the upload raises, train() ends there after that one attempt:
   the file written by save_model stays, holding the model just fitted, and
   the bucket holds what it held when train() was entered. *)
C8_NoRollback ==
  [][(tpc = "upload" /\ tpc' = "raised") =>
       /\ tlocal'.raisedIn = "upload"
       /\ uploads = 0 /\ uploads' = 1
       /\ model_file' = model_file
       /\ model_file' = tlocal.model /\ model_file' # None
       /\ bucket' = bucket /\ bucket' = bucket0
       /\ steps' = steps]_vars

(* train() ended in a failed upload: the new model is on disk only. *)
C8_Witness ==
  /\ tpc = "raised" /\ tlocal.raisedIn = "upload"
  /\ uploads = 1
  /\ model_file = tlocal.model /\ model_file.run = runs
  /\ bucket # model_file

TrainOrder ==
  <<"read_input", "train_model", "eval_model", "save_model", "upload">>

(* C9: the steps a train() call has completed are always a leading part of
   read_input, train_model, eval_model, save_model, upload, the call is at the
   step after them (or has raised in it), and after the upload the bucket holds
   the model this call fitted and saved. *)
C9_FixedOrder ==
  /\ Len(steps) <= Len(TrainOrder)
  /\ steps = SubSeq(TrainOrder, 1, Len(steps))
  /\ tpc = "done" <=> steps = TrainOrder
  /\ tpc \in {"train_model", "eval_model", "save_model", "upload"} =>
       tpc = TrainOrder[Len(steps) + 1]
  /\ tpc = "raised" => tlocal.raisedIn = TrainOrder[Len(steps) + 1]
  /\ Len(steps) >= 4 => model_file = tlocal.model
  /\ tpc = "done" => bucket = tlocal.model /\ model_file = tlocal.model
  /\ tpc = "idle" => steps = <<>>

(* A second train() call has run through all five steps. *)
C9_Witness ==
  /\ tpc = "done" /\ runs = 2
  /\ steps = TrainOrder
  /\ bucket = tlocal.model /\ bucket.run = 2

(* C10: a predict call never downloads and never writes the model file; when
   it finds no cached model and no file the load raises and the object stays
   without a model, so that its next call tries the load again, and succeeds
   when the file is there by then. *)
C10_NoDownload ==
  [][\A o \in Objs :
       (calls'[o] # calls[o]) =>
         /\ downloaded' = downloaded
         /\ model_file' = model_file
         /\ bucket' = bucket
         /\ (trained_model[o] = None) => attempts'[o] = attempts[o] + 1
         /\ (trained_model[o] = None /\ model_file = None) =>
              /\ pstatus' = "load raised"
              /\ trained_model'[o] = None
              /\ loads'[o] = loads[o]
         /\ (trained_model[o] = None /\ model_file # None) =>
              /\ trained_model'[o] = model_file
              /\ pstatus' # "load raised"]_vars

(* The first call of an object raised for want of the file although the bucket
   held the model, and its second call loaded the file. *)
C10_Witness ==
  /\ calls[caller] = 2 /\ attempts[caller] = 2 /\ loads[caller] = 1
  /\ pstatus = "ok"
  /\ trained_model[caller] # None
  /\ downloaded

-----------------------------------------------------------------------------
(* Properties of read_input (SpecData) *)

SameTrainingRows ==
  /\ Len(data2) = Len(data)
  /\ TrainRowsOf(data2, test_size) = TrainRowsOf(data, test_size)
  /\ TestRowsOf(data2, test_size) = TestRowsOf(data, test_size)
  /\ \A i \in 1..Len(data) :
       /\ data2[i].SalePrice = data[i].SalePrice
       /\ i \notin TestRowsOf(data, test_size) => data2[i] = data[i]

NumericCols(d) ==
  {c \in Cols : \A i \in 1..Len(d) : d[i].feat[c].kind \in {"num", "nan"}}

(* C4 as stated: two files with the same training-partition rows and any
   test-partition feature values give the same imputer statistics and the
   same imputed training matrix. *)
C4_Original ==
  (dpc = "both" /\ SameTrainingRows /\ res.status = "ok") =>
    /\ res2.status = "ok"
    /\ res2.statistics = res.statistics
    /\ res2.train_X = res.train_X

(* C4 amended: two files with the same training-partition rows whose
   test-partition feature values differ, but leave the same feature columns
   numeric, give the same imputer statistics and the same imputed training
   matrix (and the same training labels). *)
C4_TrainOnlyStatistics ==
  (dpc = "both" /\ SameTrainingRows /\ res.status = "ok"
     /\ NumericCols(data2) = NumericCols(data)) =>
    /\ res2.status = "ok"
    /\ res2.statistics = res.statistics
    /\ res2.train_X = res.train_X
    /\ res2.train_y = res.train_y

(* A number of a test-partition row was changed in a column whose median is
   used to fill a gap of the training partition. *)
C4_Witness ==
  /\ dpc = "both" /\ res.status = "ok" /\ res2.status = "ok"
  /\ NumericCols(data2) = NumericCols(data)
  /\ \E i \in TestRowsOf(data, test_size), c \in NumericCols(data) :
       /\ data[i].feat[c].kind = "num" /\ data2[i].feat[c].kind = "num"
       /\ data2[i].feat[c] # data[i].feat[c]
       /\ res.statistics[c].kind = "num"
       /\ \E j \in TrainRowsOf(data, test_size) : data[j].feat[c] = NaN

NoMissing(r) ==
  r.status = "ok" =>
    /\ \A i \in 1..Len(r.train_X) :
         \A c \in DOMAIN r.train_X[i] : r.train_X[i][c].kind = "num"
    /\ \A i \in 1..Len(r.test_X) :
         \A c \in DOMAIN r.test_X[i] : r.test_X[i][c].kind = "num"

(* C5: after read_input returned, no cell of the training matrix and no cell
   of the test matrix is missing. *)
C5_NoMissingValues == NoMissing(res) /\ NoMissing(res2)

(* read_input returned for a file with one column missing in every training
   row and another column missing in test rows only. *)
C5_Witness ==
  /\ res.status = "ok"
  /\ \E c \in NumericCols(data) :
       \A i \in TrainRowsOf(data, test_size) : data[i].feat[c] = NaN
  /\ \E c \in NumericCols(data) :
       /\ \A i \in TrainRowsOf(data, test_size) : data[i].feat[c] # NaN
       /\ \E i \in TestRowsOf(data, test_size) : data[i].feat[c] = NaN
       /\ \A i \in 1..Len(res.test_X) : c \in DOMAIN res.test_X[i]

(* round(n * f), Python's round: halves go to the even neighbour. *)
Round(n, f) ==
  LET q == (n * f.num) \div f.den
      r == (n * f.num) % f.den
  IN IF 2 * r < f.den THEN q
     ELSE IF 2 * r > f.den THEN q + 1
     ELSE IF q % 2 = 0 THEN q ELSE q + 1

Priced(d) == {i \in 1..Len(d) : d[i].SalePrice.kind = "num"}

RowCounts(r, d) ==
  r.status = "ok" =>
    /\ Len(r.train_X) = Len(r.train_y) /\ Len(r.test_X) = Len(r.test_y)
    /\ Len(r.train_y) + Len(r.test_y) = Cardinality(Priced(d))
    /\ \A i \in 1..Len(r.train_y) : r.train_y[i].kind = "num"
    /\ \A i \in 1..Len(r.test_y) : r.test_y[i].kind = "num"
    /\ Abs(Len(r.test_y) - Round(Cardinality(Priced(d)), test_size)) <= 1

(* C6: the partitions read_input returns hold no row with a missing price,
   together they have as many rows as the file has rows with a price, and the
   test partition has round(rows * test_size) rows, give or take one. *)
C6_RowCounts == RowCounts(res, data) /\ RowCounts(res2, data2)

(* read_input returned with the default test fraction for a file that has a
   row without price, and the test partition is one row larger than
   round(rows * 0.25). *)
C6_Witness ==
  /\ res.status = "ok" /\ test_size = DefaultTestSize
  /\ Cardinality(Priced(data)) < Len(data)
  /\ Len(res.test_y) = Round(Cardinality(Priced(data)), test_size) + 1

(* The file rows with a price, in file order. *)
PricedRows(d) ==
  SelectSeq([i \in 1..Len(d) |-> i], LAMBDA i : d[i].SalePrice.kind = "num")

OrderKept(r, d) ==
  r.status = "ok" =>
    LET idx == PricedRows(d)
        k == Len(r.train_y)
    IN /\ Len(r.train_X) = k /\ Len(r.test_X) = Len(r.test_y)
       /\ k + Len(r.test_y) = Len(idx)
       /\ \A i \in 1..k :
            /\ r.train_y[i] = d[idx[i]].SalePrice
            /\ \A c \in DOMAIN r.train_X[i] :
                 d[idx[i]].feat[c] # NaN => r.train_X[i][c] = d[idx[i]].feat[c]
       /\ \A i \in 1..Len(r.test_y) :
            /\ r.test_y[i] = d[idx[k + i]].SalePrice
            /\ \A c \in DOMAIN r.test_X[i] :
                 d[idx[k + i]].feat[c] # NaN =>
                   r.test_X[i][c] = d[idx[k + i]].feat[c]

(* C7: the training partition is the leading rows of the file rows that have
   a price, in file order, the test partition the rows after them, in file
   order, and each feature row comes with the price of its own file row. *)
C7_OrderPreserving == OrderKept(res, data) /\ OrderKept(res2, data2)

(* read_input returned a training row and a test row with different features
   for a file with a row without price before its last row. *)
C7_Witness ==
  /\ res.status = "ok"
  /\ Len(res.train_y) >= 1 /\ Len(res.test_y) >= 1
  /\ DOMAIN res.test_X[1] # {}
  /\ res.train_X[1] # res.test_X[1]
  /\ \E i \in 1..(Len(data) - 1) : data[i].SalePrice = NaN

=============================================================================
